---- MODULE Spec2Model ----
(***************************************************************************)
(* Model of the cdsbuilder build-then-spawn workflow:                      *)
(*   - DockerBuilder.start          (cdsbuilder/builder/dockerbuilder.py)  *)
(*   - ProgressDashboardHandler.get (cdsbuilder/hubextension/events.py)    *)
(*   - DockerBuilder.docker, _docker, client and executor, for several     *)
(*     Builders of one process      (cdsbuilder/builder/dockerbuilder.py)  *)
(* Strings of the program are modelled as tuples of their parts, so that   *)
(* '{}/{}'.format(a, b) is <<a, "/", b>> and concatenation is \o.          *)
(***************************************************************************)
EXTENDS Integers, Sequences, FiniteSets, TLC

\* ---------------------------------------------------------------- bounds
MaxBuilds == 2      \* build attempts submitted on the one Builder
MaxLimit == 1       \* largest configured named_server_limit_per_user
MaxForeign == 1     \* events another producer left in the event queue
MaxBuilders == 2    \* Builders of the process that issue bridge calls

\* ------------------------------------------------------ program constants
WaitCount == 8                      \* for i in range(8)
named_server_limit_default == 10    \* named_server_limit_per_user = 10

None == <<"None">>
ObjectId == <<"container-1">>
ImageId == <<"sha256:image">>
Container == <<"container-descriptor">>
repo_prefix == "cdsuser"
urlname == "dash"
url == "testurl"
Tags == {"t1", "t2"}
DefaultName == <<>>
OtherNames == {<<"a">>}

Digit(i) == <<"0", "1", "2", "3", "4", "5", "6", "7", "8", "9">>[i + 1]

\* ------------------------------------------------------------- exceptions
\* An exception is the tuple of its constructor arguments.
NoObjectSpecified == <<"No docker object specified in spawner state">>
NoObjectReturned == <<"No docker object returned as source container">>
NamedServersDisabled == <<"400", "Named servers are not enabled.">>
LimitExceeded(limit) ==
    <<"User already has the maximum of ", Digit(limit), " named servers.">>
InspectError == <<"inspect failed">>
CommitError == <<"disk full">>
PollError == <<"poll failed">>
CancelledError == <<"CancelledError">>

\* "%s" % exception: one argument prints as itself, several as their tuple
ExcStr(args) == IF Len(args) = 1 THEN args ELSE <<"(">> \o args \o <<")">>

\* ----------------------------------------------------------------- events
StartingEvent == [progress |-> 10, message |-> <<"Starting builder">>]
WaitingEvent(i) ==
    [progress |-> 60, message |-> <<"Waiting in builder ", Digit(i)>>]
ready_event ==
    [progress |-> 100, ready |-> TRUE,
     message |-> <<"Server ready at ", url>>,
     html_message |-> <<"Server ready at <a href=", url, ">", url, "</a>">>,
     url |-> url]
failed_event ==
    [progress |-> 100, failed |-> TRUE, message |-> <<"Build failed">>]
FailedWith(args) ==
    [failed_event EXCEPT !.message = <<"Build failed: ">> \o ExcStr(args)]

\* events some other producer may have put on the queue (with a ready key)
ForeignEvents ==
    { [progress |-> 50, message |-> <<"foreign">>],
      [progress |-> 50, message |-> <<"foreign">>, ready |-> TRUE],
      [progress |-> 100, message |-> <<"sneaky">>, ready |-> TRUE] }

\* --------------------------------------------------------------- names
reponame == <<repo_prefix, "/", urlname>>
image_name(tag) == reponame \o <<":", tag>>
new_server_name(tag) == <<urlname, "-", tag>>
Names == {DefaultName} \cup OtherNames \cup {new_server_name(t) : t \in Tags}

\* --------------------------------------------------------------- futures
Unset == [state |-> "unset"]
Unsettled == [state |-> "unsettled"]
Done(f) == f.state \in {"result", "exception", "cancelled"}

VARIABLES
    allow_named_servers,          \* self.allow_named_servers, as start read it
    named_server_limit_per_user,  \* self.named_server_limit_per_user, as read
    orm_seen,                     \* dashboard_user.orm_spawners, as start read it
    orm_spawners,                 \* dashboard_user.orm_spawners, as start left it
    consulted,                    \* this start reached the named-server checks
    build_pending,                \* builder._build_pending
    futures,                      \* the build future of each attempt
    event_queue,                  \* builder.event_queue
    ready,                        \* builder.ready
    pc,                           \* position of the start coroutine
    i,                            \* loop counter of the wait loop
    object_id,                    \* dashboard.source_spawner.state['object_id']
    tag,                          \* datetime.today().strftime(...)
    spawner,                      \* dashboard_user.spawners[new_server_name]
    spawn_pending,                \* spawner._spawn_pending
    outcome,                      \* how the last start ended
    docker_calls,                 \* calls this start issued through self.docker
    docker_results,               \* what those calls returned or raised
    pushed,                       \* every event put on event_queue, in order
    taken,                        \* number of events got from event_queue
    builds,                       \* build attempts so far
    hpc,                          \* position of the endpoint coroutine
    sent,                         \* events sent to the client by this call
    hresult,                      \* how the endpoint call ended
    hmode,                        \* branch the endpoint call took
    hbuild,                       \* attempt whose future the call holds
    hready,                       \* builder.ready as the call last read it
    sub_at,                       \* value of taken when the call subscribed
    hcancelled,                   \* the relay of this call was cancelled
    cls_executor,                 \* DockerBuilder._executor
    cls_client,                   \* DockerBuilder._client
    constructed,                  \* docker.APIClient constructions so far
    issued,                       \* bridge calls each Builder has issued
    tpc,                          \* position of the thread running the call
    pool,                         \* executor the call was handed to
    handle,                       \* the local `client` of the client property
    used                          \* handle _docker took the method from

cfgvars == <<allow_named_servers, named_server_limit_per_user, orm_seen,
             orm_spawners>>
bvars == <<build_pending, futures, event_queue, ready, pc, i, object_id,
           tag, spawner, spawn_pending, outcome, docker_calls, docker_results, pushed,
           builds, consulted>>
hvars == <<hpc, sent, hresult, hmode, hbuild, hready, sub_at, hcancelled>>
brvars == <<cls_executor, cls_client, constructed, issued, tpc, pool,
            handle, used>>
vars == <<cfgvars, bvars, hvars, taken, brvars>>

\* builder._build_future: the future of the latest attempt, if any
build_future == IF builds = 0 THEN Unset ELSE futures[builds]

\* ------------------------------------------------------------------ Init
NoOutcome == [kind |-> "none", value |-> <<>>]

\* lines 170-171: the class attributes; no start has consulted anything
InitConfig ==
    /\ allow_named_servers = TRUE
    /\ named_server_limit_per_user = named_server_limit_default
    /\ orm_seen = {}
    /\ orm_spawners = {}
    /\ consulted = FALSE

InitBuilder ==
    /\ build_pending = FALSE
    /\ futures = <<>>
    /\ ready = FALSE
    /\ pc = "idle"
    /\ i = 0
    /\ object_id = None
    /\ tag = "none"
    /\ spawner = None
    /\ spawn_pending = FALSE
    /\ outcome = NoOutcome
    /\ docker_calls = <<>>
    /\ docker_results = <<>>
    /\ taken = 0
    /\ builds = 0

InitHandler ==
    /\ hpc = "idle"
    /\ sent = <<>>
    /\ hresult = <<"none">>
    /\ hmode = "none"
    /\ hbuild = 0
    /\ hready = FALSE
    /\ sub_at = 0
    /\ hcancelled = FALSE

\* the Builders of the process
Builders == 1..MaxBuilders

\* the bridge calls of one start, in the order start issues them
BridgeMethods == <<"inspect_container", "commit">>

\* lines 48 and 64: the class attributes _client and _executor are None
InitBridge ==
    /\ cls_executor = None
    /\ cls_client = None
    /\ constructed = 0
    /\ issued = [b \in Builders |-> 0]
    /\ tpc = [b \in Builders |-> "none"]
    /\ pool = [b \in Builders |-> None]
    /\ handle = [b \in Builders |-> None]
    /\ used = [b \in Builders |-> None]

Init ==
    /\ InitConfig
    /\ InitBuilder
    /\ InitHandler
    /\ InitBridge
    /\ event_queue = <<>>
    /\ pushed = <<>>

\* ------------------------------------------------- the build task (caller)
\* Queue.put_nowait: the event goes to the back of the queue
put_nowait(q, e) == Append(q, e)

\* A future settles once: a settled future keeps its first outcome.
Settle(f, kind, value) ==
    IF f.state = "unsettled" THEN [state |-> kind, value |-> value] ELSE f

\* the outcome of the coroutine is dropped
TaskFinishedUnsettled(kind, value) ==
    /\ pc' = "exited"
    /\ outcome' = [kind |-> kind, value |-> value]
    /\ UNCHANGED futures

\* The task that runs start finishes when the coroutine returns, raises or
\* is cancelled; its outcome is the outcome of builder._build_future.
TaskFinished(kind, value) ==
    /\ pc' = "exited"
    /\ outcome' = [kind |-> kind, value |-> value]
    /\ futures' = [futures EXCEPT ![builds] = Settle(@, kind, value)]

\* The frame of a start that is not running: its locals hold nothing, and
\* the configuration and the user's records have not been read.
NoFrame ==
    /\ i' = 0
    /\ tag' = "none"
    /\ spawner' = None
    /\ outcome' = NoOutcome
    /\ docker_calls' = <<>>
    /\ docker_results' = <<>>
    /\ consulted' = FALSE
    /\ allow_named_servers' = TRUE
    /\ named_server_limit_per_user' = named_server_limit_default
    /\ orm_seen' = {}
    /\ orm_spawners' = {}

\* The caller makes a task of start(dashboard, db) on an idle Builder and
\* keeps it as builder._build_future.
Submit ==
    /\ pc = "idle"
    /\ ~build_pending
    /\ ~ready
    /\ \E oid \in {None, ObjectId} : object_id' = oid
    /\ futures' = Append(futures, Unsettled)
    /\ builds' = builds + 1
    /\ pc' = "start"
    /\ NoFrame
    /\ UNCHANGED <<brvars, hvars, taken, build_pending, event_queue, ready,
                   spawn_pending, pushed>>

\* the first build of the Builder
SubmitBuild ==
    /\ builds = 0
    /\ Submit

\* a later build on the same Builder
Resubmit ==
    /\ builds > 0
    /\ builds < MaxBuilds
    /\ Submit

\* Step (h) of the build: once the task has finished, pending is cleared.
BuildDone ==
    /\ pc = "exited"
    /\ pc' = "idle"
    /\ build_pending' = FALSE
    /\ object_id' = None
    /\ NoFrame
    /\ UNCHANGED <<brvars, hvars, taken, futures, event_queue, ready, spawn_pending,
                   pushed, builds>>

\* The launched target reports ready some time after a successful build.
TargetReady ==
    /\ build_future.state = "result"
    /\ ~ready
    /\ ready' = TRUE
    /\ UNCHANGED <<brvars, cfgvars, hvars, taken, consulted,
                   build_pending, futures,
                   event_queue, pc, i, object_id, tag, spawner,
                   spawn_pending, outcome, docker_calls, docker_results, pushed, builds>>

\* ------------------------------------------------- DockerBuilder.start
Push(e) ==
    /\ event_queue' = put_nowait(event_queue, e)
    /\ pushed' = Append(pushed, e)

\* self.docker(method, *args): the call is handed to the executor
Docker(call) == docker_calls' = Append(docker_calls, call)

\* lines 84-101: first event, pending flag, object id, inspect issued
StartEntry ==
    /\ pc = "start"
    /\ Push(StartingEvent)
    /\ build_pending' = TRUE
    /\ IF object_id = None
         THEN /\ TaskFinished("exception", NoObjectSpecified)
              /\ UNCHANGED docker_calls
         ELSE /\ Docker(<<"inspect_container", object_id>>)
              /\ pc' = "await_inspect"
              /\ UNCHANGED <<outcome, futures>>
    /\ UNCHANGED <<brvars, cfgvars, hvars, taken, consulted,
                   ready, i, object_id, tag, spawner,
                   spawn_pending, builds, docker_results>>

\* an empty inspect result is taken for a container
SourceMissingIgnored(r) == FALSE

\* line 107: if source_container is None
SourceMissing(r) == r = None

\* lines 105-126: inspect result, image handle, commit issued
InspectReturn ==
    /\ pc = "await_inspect"
    /\ \E r \in {Container, None, InspectError} :
         /\ docker_results' = Append(docker_results, r)
         /\ CASE r = InspectError ->
                /\ TaskFinished("exception", InspectError)
                /\ UNCHANGED <<tag, docker_calls>>
           [] SourceMissing(r) ->
                /\ TaskFinished("exception", NoObjectReturned)
                /\ UNCHANGED <<tag, docker_calls>>
           [] OTHER ->
                /\ \E t \in Tags :
                     /\ tag' = t
                     /\ Docker(<<"commit", object_id, reponame, t>>)
                /\ pc' = "await_commit"
                /\ UNCHANGED <<outcome, futures>>
    /\ UNCHANGED <<brvars, cfgvars, hvars, taken, consulted,
                   build_pending, event_queue, ready,
                   i, object_id, spawner, spawn_pending, pushed, builds>>

\* lines 126-133: commit result, first pass of the wait loop
CommitReturn ==
    /\ pc = "await_commit"
    /\ \E ok \in BOOLEAN :
         /\ docker_results' = Append(docker_results,
                                     IF ok THEN ImageId ELSE CommitError)
         /\ IF ok
           THEN /\ i' = 0
                /\ Push(WaitingEvent(0))
                /\ pc' = "sleep"
                /\ UNCHANGED <<outcome, futures>>
           ELSE /\ TaskFinished("exception", CommitError)
                /\ UNCHANGED <<i, event_queue, pushed>>
    /\ UNCHANGED <<brvars, cfgvars, hvars, taken, consulted,
                   build_pending, ready, object_id,
                   tag, spawner, spawn_pending, docker_calls, builds>>

\* the loop is left one pass early
LoopContinuesShort(n) == n + 2 < WaitCount

\* line 130: range(8) has a value after n
LoopContinues(n) == n + 1 < WaitCount

\* lines 130-133: gen.sleep(1) returns and the loop goes round again
SleepReturn ==
    /\ pc = "sleep"
    /\ LoopContinues(i)
    /\ i' = i + 1
    /\ Push(WaitingEvent(i + 1))
    /\ UNCHANGED <<brvars, cfgvars, hvars, taken, consulted,
                   build_pending, futures, ready,
                   pc, object_id, tag, spawner, spawn_pending, outcome,
                   docker_calls, docker_results, builds>>

\* all_spawners(include_default=False): the named instance records
named_spawners(spawners) == spawners \ {DefaultName}

\* the limit is applied to a name the user already has, too
LimitReachedNoReuse(limit, name, spawners) ==
    /\ limit > 0
    /\ limit <= Cardinality(spawners \ {DefaultName})

\* lines 143-148: the limit applies to a name that does not exist yet
LimitReached(limit, name, spawners) ==
    /\ limit > 0
    /\ name \notin spawners
    /\ limit <= Cardinality(named_spawners(spawners))

\* the image is named by a tag taken again at the return
LaunchTargetRetagged(t) ==
    [name |-> new_server_name(t),
     options |-> [image |-> image_name(CHOOSE u \in Tags : u # t)]]

\* lines 166-168: return (new_server_name, {'image': image_name})
LaunchTarget(t) ==
    [name |-> new_server_name(t), options |-> [image |-> image_name(t)]]

\* lines 141-155: the named-server checks, then the record of the name is
\* resolved, or created when the user has none of that name
Coordinate(allow, limit, name, spawners) ==
    IF ~allow
      THEN [ok |-> FALSE, error |-> NamedServersDisabled,
            spawners |-> spawners]
      ELSE IF LimitReached(limit, name, spawners)
      THEN [ok |-> FALSE, error |-> LimitExceeded(limit),
            spawners |-> spawners]
      ELSE [ok |-> TRUE, error |-> <<>>, spawners |-> spawners \cup {name}]

\* the values the configuration may hold when start reads it
Limits == (0..MaxLimit) \cup {named_server_limit_default}

\* lines 133-168: the loop ends; named-server checks, record, ready check.
\* The configuration and the user's records are read here, as they are then.
ObtainLaunchTarget ==
    /\ pc = "sleep"
    /\ ~LoopContinues(i)
    /\ \E allow \in BOOLEAN, limit \in Limits, seen \in SUBSET Names :
         LET name == new_server_name(tag)
             r == Coordinate(allow, limit, name, seen)
         IN  /\ allow_named_servers' = allow
             /\ named_server_limit_per_user' = limit
             /\ orm_seen' = seen
             /\ orm_spawners' = r.spawners
             /\ IF ~r.ok
                  THEN /\ TaskFinished("exception", r.error)
                       /\ UNCHANGED <<spawner, spawn_pending>>
                  ELSE /\ spawner' = name
                       /\ \E rdy \in (IF name \in seen
                                        THEN BOOLEAN ELSE {FALSE}) :
                            IF rdy
                              THEN /\ spawn_pending' = TRUE
                                   /\ pc' = "await_poll"
                                   /\ UNCHANGED <<outcome, futures>>
                              ELSE /\ TaskFinished("result",
                                                   LaunchTarget(tag))
                                   /\ UNCHANGED spawn_pending
    /\ consulted' = TRUE
    /\ UNCHANGED <<brvars, hvars, taken, build_pending, event_queue, ready, i,
                   object_id, tag, docker_calls, docker_results, pushed, builds>>

\* lines 161-168: poll_and_notify returns or raises; the guard is cleared
PollReturn ==
    /\ pc = "await_poll"
    /\ spawn_pending' = FALSE
    /\ \E ok \in BOOLEAN :
         IF ok THEN TaskFinished("result", LaunchTarget(tag))
               ELSE TaskFinished("exception", PollError)
    /\ UNCHANGED <<brvars, cfgvars, hvars, taken, consulted,
                   build_pending, event_queue, ready,
                   i, object_id, tag, spawner, docker_calls, docker_results, pushed, builds>>

\* the guard stays as it is when start is cancelled in the re-check
StartCancelNoFinally ==
    /\ pc \in {"await_inspect", "await_commit", "sleep", "await_poll"}
    /\ TaskFinished("cancelled", CancelledError)
    /\ UNCHANGED <<brvars, cfgvars, hvars, taken, consulted, build_pending,
                   event_queue, ready, i, object_id, tag, spawner,
                   spawn_pending, docker_calls, docker_results, pushed,
                   builds>>

\* the task is cancelled while start is suspended at one of its awaits
StartCancel ==
    /\ pc \in {"await_inspect", "await_commit", "sleep", "await_poll"}
    /\ TaskFinished("cancelled", CancelledError)
    /\ spawn_pending' = IF pc = "await_poll" THEN FALSE ELSE spawn_pending
    /\ UNCHANGED <<brvars, cfgvars, hvars, taken, consulted,
                   build_pending, event_queue, ready,
                   i, object_id, tag, spawner, docker_calls, docker_results, pushed, builds>>

BuilderNext ==
    \/ SubmitBuild
    \/ StartEntry
    \/ InspectReturn
    \/ CommitReturn
    \/ SleepReturn
    \/ ObtainLaunchTarget
    \/ PollReturn
    \/ StartCancel
    \/ BuildDone
    \/ TargetReady

\* --------------------------------------- ProgressDashboardHandler.get
\* the ready key is left on the event
StripReadyKept(e) == e

\* lines 83-84: an event of the builder may not carry the ready key
StripReady(e) ==
    IF "ready" \in DOMAIN e
      THEN [k \in DOMAIN e \ {"ready"} |-> e[k]]
      ELSE e

\* the event goes out twice
RelayTwice(s, e) == Append(Append(s, e), e)

\* lines 81-85: the event is stripped and sent to the client
Relay(s, e) == Append(s, StripReady(e))

\* the recorded error is not looked at: every such call is refused
NotPendingReplyNoError(f) ==
    [sent |-> <<>>, result |-> <<"HTTPError", "400">>, mode |-> "invalid"]

\* a future that is not pending is taken to have failed
NotPendingReplyAlwaysFailed(f) ==
    [sent |-> <<failed_event>>, result |-> <<"returned">>, mode |-> "failed"]

\* lines 65-74: no build is pending; f is builder._build_future.
\* f.exception() of a cancelled future raises CancelledError.
NotPendingReply(f) ==
    CASE f.state = "exception" ->
           [sent |-> <<FailedWith(f.value)>>, result |-> <<"returned">>,
            mode |-> "failed"]
      [] f.state = "cancelled" ->
           [sent |-> <<>>, result |-> <<"raised">> \o CancelledError,
            mode |-> "invalid"]
      [] OTHER ->
           [sent |-> <<>>, result |-> <<"HTTPError", "400">>,
            mode |-> "invalid"]

\* readiness is not looked at: the failed event goes out
AfterBuildNotReady(f, rdy) ==
    [sent |-> <<failed_event>>, result |-> <<"returned">>]

\* lines 92-108: the held future is awaited, then the terminal event is sent.
\* Awaiting a future that holds an exception raises that exception.
AfterBuild(f, rdy) ==
    CASE f.state = "exception" ->
           [sent |-> <<>>, result |-> <<"raised">> \o f.value]
      [] f.state = "cancelled" ->
           [sent |-> <<>>, result |-> <<"raised">> \o CancelledError]
      [] OTHER ->
           [sent |-> <<IF rdy THEN ready_event ELSE failed_event>>,
            result |-> <<"returned">>]

\* the future the call took from the builder at line 63
held_future == IF hbuild = 0 THEN Unset ELSE futures[hbuild]

\* lines 53-79: the call answers at once or subscribes to the progress
HandlerCall ==
    /\ hpc \in {"idle", "done"}
    /\ hbuild' = builds
    /\ hready' = ready
    /\ hcancelled' = FALSE
    /\ sub_at' = taken
    /\ IF ready
         THEN /\ sent' = <<ready_event>>
              /\ hresult' = <<"returned">>
              /\ hmode' = "ready"
              /\ hpc' = "done"
         ELSE IF ~build_pending
         THEN /\ sent' = NotPendingReply(build_future).sent
              /\ hresult' = NotPendingReply(build_future).result
              /\ hmode' = NotPendingReply(build_future).mode
              /\ hpc' = "done"
         ELSE /\ sent' = <<>>
              /\ hresult' = <<"none">>
              /\ hmode' = "relay"
              /\ hpc' = "relay"
    /\ UNCHANGED <<brvars, cfgvars, bvars, taken>>

\* lines 81-85: the next event of the queue is relayed
RelayEvent ==
    /\ hpc = "relay"
    /\ event_queue # <<>>
    /\ sent' = Relay(sent, Head(event_queue))
    /\ event_queue' = Tail(event_queue)
    /\ taken' = taken + 1
    /\ UNCHANGED <<brvars, cfgvars, consulted, hpc, hresult, hmode, hbuild, hready,
                   sub_at, hcancelled,
                   build_pending, futures, ready, pc, i, object_id,
                   tag, spawner, spawn_pending, outcome, docker_calls, docker_results,
                   pushed, builds>>

\* the drain stops as soon as the future is done
DrainEndsAtSettle(q, f) == Done(f)

\* iterate_until(build_future, builder._generate_progress()): an event that
\* is ready is yielded even when the future is done; the drain stops when
\* the future is done and no event is ready
DrainEnds(q, f) == q = <<>> /\ Done(f)

\* lines 77-81: the stream of events ends
RelayEnd ==
    /\ hpc = "relay"
    /\ DrainEnds(event_queue, held_future)
    /\ hpc' = "await_build"
    /\ UNCHANGED <<brvars, cfgvars, bvars, taken, sent, hresult, hmode, hbuild,
                   hready, sub_at, hcancelled>>

\* lines 86-87: a cancellation during the relay is caught and passed over
HandlerCancel ==
    /\ hpc = "relay"
    /\ hcancelled' = TRUE
    /\ hpc' = "await_build"
    /\ UNCHANGED <<brvars, cfgvars, bvars, taken, sent, hresult, hmode, hbuild,
                   hready, sub_at>>

\* lines 92-108: await build_future, then the terminal event
AwaitBuild ==
    /\ hpc = "await_build"
    /\ Done(held_future)
    /\ sent' = sent \o AfterBuild(held_future, ready).sent
    /\ hresult' = AfterBuild(held_future, ready).result
    /\ hready' = ready
    /\ hpc' = "done"
    /\ UNCHANGED <<brvars, cfgvars, bvars, taken, hmode, hbuild, sub_at,
                   hcancelled>>

\* the attributes a User of the hub answers to, its own and those of the
\* orm user behind it; urlname is an attribute of a Dashboard
UserAttributes == {"name", "admin", "orm_user", "spawners", "url",
                   "escaped_name", "server_url", "created", "last_activity"}

\* lines 24-32: the checks on the dashboard, its user and the requester.
\* owner is dashboard.user.name, user_name is dashboard_user.name and
\* allowed is dashboard.is_orm_user_allowed(current_user.orm_user).
AccessCheck(dashboard, dashboard_user, owner, user_name, allowed) ==
    IF dashboard = None \/ dashboard_user = None
      THEN [branch |-> "no_such",
            error |-> <<"HTTPError", "404", "No such dashboard or user">>]
      ELSE IF owner # user_name
      THEN [branch |-> "owner_mismatch",
            error |-> <<"HTTPError", "404", "Dashboard user ", owner,
                        " does not match ", user_name>>]
      ELSE IF ~allowed
      THEN [branch |-> "not_allowed",
            error |-> IF "urlname" \in UserAttributes
                        THEN <<"HTTPError", "403", "User ", "requester",
                               " not authorized to access dashboard ",
                               urlname>>
                        ELSE <<"AttributeError", "urlname">>]
      ELSE [branch |-> "granted", error |-> <<>>]

\* line 28 reads dashboard.user.name only of a dashboard and a user that
\* exist, and line 31 asks is_orm_user_allowed only when the owner matches:
\* a value that is not read is taken as one and the same
ReadInOrder(dashboard, dashboard_user, owner, user_name, allowed) ==
    /\ (dashboard = None \/ dashboard_user = None) => owner = user_name
    /\ (dashboard = None \/ dashboard_user = None \/ owner # user_name)
          => allowed

\* the names a dashboard's owner and the user of the request may have
UserNames == {"alice", "bob"}

\* lines 16-32: a request that does not pass the checks ends with their
\* error before anything of the builder is read
HandlerRefuse ==
    /\ hpc \in {"idle", "done"}
    /\ \E dashboard \in {None, <<urlname>>},
          dashboard_user \in {None, <<"alice">>},
          owner \in UserNames, allowed \in BOOLEAN :
         LET check == AccessCheck(dashboard, dashboard_user, owner,
                                  "alice", allowed)
         IN  /\ ReadInOrder(dashboard, dashboard_user, owner, "alice",
                             allowed)
             /\ check.branch # "granted"
             /\ hmode' = check.branch
             /\ hresult' = <<"raised">> \o check.error
    /\ sent' = <<>>
    /\ hbuild' = 0
    /\ hready' = FALSE
    /\ hcancelled' = FALSE
    /\ sub_at' = taken
    /\ hpc' = "done"
    /\ UNCHANGED <<brvars, cfgvars, bvars, taken>>

\* line 92: the call is cancelled while it awaits build_future directly.
\* The cancellation is passed to the awaited future, the task of start:
\* start is thrown CancelledError at its await, its task ends cancelled,
\* and the await of the call raises CancelledError.
HandlerCancelAwait ==
    /\ hpc = "await_build"
    /\ ~Done(held_future)
    /\ pc \in {"await_inspect", "await_commit", "sleep", "await_poll"}
    /\ TaskFinished("cancelled", CancelledError)
    /\ spawn_pending' = IF pc = "await_poll" THEN FALSE ELSE spawn_pending
    /\ hresult' = <<"cancelled">>
    /\ hpc' = "done"
    /\ UNCHANGED <<brvars, cfgvars, taken, consulted, build_pending,
                   event_queue, ready, i, object_id, tag, spawner,
                   docker_calls, docker_results, pushed, builds, sent, hmode, hbuild,
                   hready, sub_at, hcancelled>>

HandlerNext ==
    \/ HandlerRefuse
    \/ HandlerCall
    \/ RelayEvent
    \/ RelayEnd
    \/ HandlerCancel
    \/ HandlerCancelAwait
    \/ AwaitBuild

\* ------------------------------------------------ the execution bridge
\* ThreadPoolExecutor(1), the pool the executor property makes
SinglePool == <<"ThreadPoolExecutor", "1">>

\* lines 66-72: the executor property makes the one-worker pool on its
\* first read and keeps it in the class attribute
ReadExecutor ==
    /\ cls_executor = None
    /\ cls_executor' = SinglePool
    /\ UNCHANGED <<cfgvars, bvars, hvars, taken, cls_client, constructed,
                   issued, tpc, pool, handle, used>>

\* line 62: run_in_executor(self._executor, fn) is given the attribute as
\* it is, not the executor property
SubmittedTo(executor_attr) == executor_attr

\* lines 57-62: docker(method, ...) of Builder b hands fn to the executor
DockerSubmit(b) ==
    /\ tpc[b] = "none"
    /\ issued[b] < Len(BridgeMethods)
    /\ issued' = [issued EXCEPT ![b] = @ + 1]
    /\ pool' = [pool EXCEPT ![b] = SubmittedTo(cls_executor)]
    /\ tpc' = [tpc EXCEPT ![b] = "queued"]
    /\ UNCHANGED <<cfgvars, bvars, hvars, taken, cls_executor, cls_client,
                   constructed, handle, used>>

\* positions of a thread inside _docker
InDocker == {"check", "construct", "assign", "return", "call"}

\* run_in_executor(None, fn) runs fn on the loop's default pool, which has
\* a thread for every call here; the one-worker pool runs one fn at a time
WorkerFree(b) ==
    \/ pool[b] = None
    \/ \A c \in Builders \ {b} : ~(pool[c] = pool[b] /\ tpc[c] \in InDocker)

\* a worker thread of the pool takes the call and enters _docker
WorkerTake(b) ==
    /\ tpc[b] = "queued"
    /\ WorkerFree(b)
    /\ tpc' = [tpc EXCEPT ![b] = "check"]
    /\ UNCHANGED <<cfgvars, bvars, hvars, taken, cls_executor, cls_client,
                   constructed, issued, pool, handle, used>>

\* line 25: if cls._client is None
ClientCheck(b) ==
    /\ tpc[b] = "check"
    /\ tpc' = [tpc EXCEPT ![b] = IF cls_client = None THEN "construct"
                                                     ELSE "return"]
    /\ UNCHANGED <<cfgvars, bvars, hvars, taken, cls_executor, cls_client,
                   constructed, issued, pool, handle, used>>

\* lines 26-32: client = docker.APIClient(**kwargs)
ClientConstruct(b) ==
    /\ tpc[b] = "construct"
    /\ constructed' = constructed + 1
    /\ handle' = [handle EXCEPT ![b] = <<"APIClient", constructed + 1>>]
    /\ tpc' = [tpc EXCEPT ![b] = "assign"]
    /\ UNCHANGED <<cfgvars, bvars, hvars, taken, cls_executor, cls_client,
                   issued, pool, used>>

\* line 33: cls._client = client
ClientAssign(b) ==
    /\ tpc[b] = "assign"
    /\ cls_client' = handle[b]
    /\ tpc' = [tpc EXCEPT ![b] = "return"]
    /\ UNCHANGED <<cfgvars, bvars, hvars, taken, cls_executor, constructed,
                   issued, pool, handle, used>>

\* lines 34 and 54: return cls._client; m = getattr(self.client, method)
ClientReturn(b) ==
    /\ tpc[b] = "return"
    /\ used' = [used EXCEPT ![b] = cls_client]
    /\ tpc' = [tpc EXCEPT ![b] = "call"]
    /\ UNCHANGED <<cfgvars, bvars, hvars, taken, cls_executor, cls_client,
                   constructed, issued, pool, handle>>

\* line 55: m(*args, **kwargs) returns from the remote engine
CallReturn(b) ==
    /\ tpc[b] = "call"
    /\ tpc' = [tpc EXCEPT ![b] = "none"]
    /\ UNCHANGED <<cfgvars, bvars, hvars, taken, cls_executor, cls_client,
                   constructed, issued, pool, handle, used>>

BridgeNext ==
    \/ ReadExecutor
    \/ \E b \in Builders :
         \/ DockerSubmit(b)
         \/ WorkerTake(b)
         \/ ClientCheck(b)
         \/ ClientConstruct(b)
         \/ ClientAssign(b)
         \/ ClientReturn(b)
         \/ CallReturn(b)

Next == BuilderNext \/ HandlerNext

\* one build of a Builder, with the progress endpoint
Spec == Init /\ [][Next]_vars

\* repeated builds on one Builder, without the endpoint
NextBuild == BuilderNext \/ Resubmit

SpecBuild == Init /\ [][NextBuild]_vars

\* a Builder whose queue holds events of another producer
InitForeign ==
    /\ InitConfig
    /\ InitBuilder
    /\ InitHandler
    /\ InitBridge
    /\ \E n \in 0..MaxForeign : event_queue \in [1..n -> ForeignEvents]
    /\ pushed = event_queue

SpecForeign == InitForeign /\ [][Next]_vars

\* the Builders of the process issuing the bridge calls of their starts
SpecBridge == Init /\ [][BridgeNext]_vars

\* ================================================================ claims
Last(s) == s[Len(s)]
Finished == pc = "exited"

\* C1: after an invocation of start has finished (returned, raised or was
\* cancelled), the Builder's pending flag is false.
C1_PendingFalseAfterStart == Finished => ~build_pending

\* C2: a build is pending with the endpoint subscribed and commit fails with
\* E: the endpoint relays the events pushed before the failure and then
\* sends, as its last event, the failed event with "Build failed: " + E; it
\* does not end with the raw error.
C2_CommitFailureEndsWithFailedEvent ==
    ( /\ hpc = "done"
      /\ hmode = "relay"
      /\ ~hcancelled
      /\ held_future.state = "exception"
      /\ held_future.value = CommitError )
    => /\ hresult = <<"returned">>
       /\ sent # <<>>
       /\ Last(sent) = FailedWith(CommitError)

\* C3: with named servers disabled, start fails with the configuration
\* error before any call (inspect, commit) has gone to the bridge.
C3_DisabledFailsBeforeBridgeCall ==
    ( /\ Finished
      /\ outcome.kind = "exception"
      /\ outcome.value = NamedServersDisabled )
    => docker_calls = <<>>

\* events this endpoint call has got from the queue
Relayed == IF hmode = "relay" THEN taken - sub_at ELSE 0

\* C4: no event the endpoint relays from the Builder's queue carries a
\* ready key; the only event sent with one is the endpoint's own ready_event.
C4_RelayedEventsCarryNoReady ==
    \A k \in 1..Len(sent) :
        /\ k <= Relayed => "ready" \notin DOMAIN sent[k]
        /\ "ready" \in DOMAIN sent[k] => /\ sent[k] = ready_event
                                         /\ k = Len(sent)
                                         /\ k > Relayed

\* an event that was pushed with a ready key has been relayed
C4_Witness ==
    /\ hmode = "relay"
    /\ \E k \in 1..Relayed :
          /\ "ready" \in DOMAIN pushed[sub_at + k]
          /\ k <= Len(sent)

\* C5: the endpoint relays the events of the queue in the order they were
\* pushed, each once: what it has sent is the run of the push log that
\* starts where it subscribed, and the queue holds the rest of the log.
C5_RelayInPushOrder ==
    /\ taken <= Len(pushed)
    /\ event_queue = SubSeq(pushed, taken + 1, Len(pushed))
    /\ hmode = "relay" =>
          /\ Len(sent) \in {Relayed, Relayed + 1}
          /\ hpc \in {"relay", "await_build"} => Len(sent) = Relayed
          /\ \A k \in 1..Relayed : sent[k] = pushed[sub_at + k]

\* the endpoint has relayed several events and more are queued
C5_Witness ==
    /\ hpc = "relay"
    /\ Relayed >= 3
    /\ Len(event_queue) >= 2

\* the nine events of a successful start
NineEvents == <<StartingEvent>> \o [k \in 1..8 |-> WaitingEvent(k - 1)]

\* C6: a build that succeeds has produced progress 10 and eight times
\* progress 60; an endpoint subscribed throughout relays the nine and, the
\* target being ready, ends with the ready event: ten events in all.
C6_NineEventsThenReady ==
    ( /\ hpc = "done"
      /\ hmode = "relay"
      /\ ~hcancelled
      /\ sub_at = 0
      /\ held_future.state = "result"
      /\ hready )
    => /\ Len(sent) = 10
       /\ SubSeq(sent, 1, 9) = NineEvents
       /\ sent[10] = ready_event
       /\ hresult = <<"returned">>

C6_Witness ==
    /\ hpc = "done"
    /\ hmode = "relay"
    /\ ~hcancelled
    /\ sub_at = 0
    /\ held_future.state = "result"
    /\ hready
    /\ Len(sent) = 10

\* the named instances among the records start read, the default left out
NamedSeen == {n \in orm_seen : n # DefaultName}

\* C7: with a limit > 0, a name the user does not have is refused with
\* LimitExceeded once the user has limit named instances, and no record is
\* resolved or created; a name the user already has is never refused for
\* the count: its record is resolved and start goes on to its result (only
\* the re-check of a ready instance can still fail or be cancelled).
C7_LimitExemptsExistingName ==
    ( /\ consulted
      /\ allow_named_servers
      /\ named_server_limit_per_user > 0 )
    => LET name == new_server_name(tag)
           limit == named_server_limit_per_user
       IN  /\ ( /\ name \notin orm_seen
                /\ Cardinality(NamedSeen) >= limit )
              => /\ Finished
                 /\ outcome = [kind |-> "exception",
                               value |-> LimitExceeded(limit)]
                 /\ spawner = None
                 /\ orm_spawners = orm_seen
           /\ name \in orm_seen
              => /\ spawner = name
                 /\ orm_spawners = orm_seen
                 /\ Finished =>
                      \/ outcome = [kind |-> "result",
                                    value |-> LaunchTarget(tag)]
                      \/ outcome = [kind |-> "exception",
                                    value |-> PollError]
                      \/ outcome.kind = "cancelled"
                 /\ ~Finished => pc = "await_poll"

\* a user at the limit asks for a name they already have, and start returns
C7_Witness ==
    /\ Finished
    /\ consulted
    /\ allow_named_servers
    /\ named_server_limit_per_user > 0
    /\ new_server_name(tag) \in orm_seen
    /\ Cardinality(NamedSeen) >= named_server_limit_per_user
    /\ outcome.kind = "result"

\* C8: the result slot of each build attempt settles exactly once: it is
\* settled when start has finished, and a settled slot is never changed.
C8_SettlesExactlyOnce ==
    /\ [](pc \in {"exited", "idle"} =>
            \A k \in 1..Len(futures) : Done(futures[k]))
    /\ [][\A k \in 1..Len(futures) :
            Done(futures[k]) =>
               /\ Len(futures') >= k
               /\ futures'[k] = futures[k]]_vars

\* two attempts on the Builder have both settled
C8_Witness ==
    /\ pc = "idle"
    /\ Len(futures) = 2
    /\ futures[1].state = "exception"
    /\ futures[2].state = "result"

\* C9: a call for a target that is not ready, with no build pending and no
\* recorded error (no future, an unsettled one, or one settled with a
\* result) is refused with the 400 error and sends no event.
C9_NotStartingIsRefused ==
    [][( /\ HandlerCall
         /\ ~ready
         /\ ~build_pending
         /\ build_future.state \in {"unset", "unsettled", "result"} )
       => /\ hresult' = <<"HTTPError", "400">>
          /\ sent' = <<>>
          /\ hpc' = "done"]_vars

\* a call after a build that returned, the target not being ready, was refused
C9_Witness ==
    /\ hpc = "done"
    /\ hresult = <<"HTTPError", "400">>
    /\ sent = <<>>
    /\ hbuild = 1
    /\ held_future.state = "result"
    /\ ~hready

\* C10: a call after a build that failed with E (no build pending, target
\* not ready) sends one event, the failed event with E's message, and ends.
C10_FailedBuildIsReported ==
    [][( /\ HandlerCall
         /\ ~ready
         /\ ~build_pending
         /\ build_future.state = "exception" )
       => /\ hresult' = <<"returned">>
          /\ hpc' = "done"
          /\ Len(sent') = 1
          /\ sent'[1] = [progress |-> 100, failed |-> TRUE,
                         message |-> <<"Build failed: ">>
                                       \o ExcStr(build_future.value)]]_vars

\* a call after the commit failed has sent the one failed event
C10_Witness ==
    /\ hpc = "done"
    /\ hmode = "failed"
    /\ ~build_pending
    /\ build_future.state = "exception"
    /\ build_future.value = CommitError
    /\ sent = <<FailedWith(CommitError)>>

\* the remote-engine calls that are executing
Executing == {b \in Builders : tpc[b] = "call"}

\* C11: the calls issued through docker() are strictly serialized: for any
\* number of Builders, at most one remote-engine call (inspect or commit) is
\* executing at any time.
C11_BridgeCallsSerialized == Cardinality(Executing) <= 1

\* C18: the client handle is created at most once per process: for any
\* number of Builders and any interleaving of bridge calls, worker threads
\* running at the same time included, the constructor runs once and every
\* call uses that one cached handle.
C18_ClientCreatedOnce ==
    /\ constructed <= 1
    /\ \A b, c \in Builders :
         (used[b] # None /\ used[c] # None) => used[b] = used[c]

\* C12: if the relay loop of the endpoint is cancelled while it relays
\* progress events, the endpoint stops silently: what it has sent are the
\* events it relayed, and no ready or failed event follows the cancellation.
C12_CancelledRelayStopsSilently ==
    hcancelled =>
        /\ Len(sent) = Relayed
        /\ \A k \in 1..Len(sent) : sent[k] \notin {ready_event, failed_event}

\* C13: cancelling the endpoint at one of its suspension points, in the
\* relay or at the await of the build future, never cancels or alters the
\* build task: the step leaves start and its future as they were.
C13_EndpointCancelLeavesBuild ==
    [][(HandlerCancel \/ HandlerCancelAwait)
          => UNCHANGED <<futures, pc, outcome, spawn_pending>>]_vars

\* C14: when the dashboard or the named user does not exist, or the owner
\* of the dashboard is not the named user, the endpoint fails with NotFound
\* (404); when the requester may not see the dashboard it fails with
\* Forbidden (403); in each case nothing is sent and the Builder is not
\* consulted.
C14_AccessRefused ==
    /\ hmode \in {"no_such", "owner_mismatch"}
          => SubSeq(hresult, 1, 3) = <<"raised", "HTTPError", "404">>
    /\ hmode = "not_allowed"
          => SubSeq(hresult, 1, 3) = <<"raised", "HTTPError", "403">>
    /\ hmode \in {"no_such", "owner_mismatch", "not_allowed"}
          => (hpc = "done" /\ sent = <<>> /\ hbuild = 0 /\ ~hready)

\* the events the running or finished start has pushed: those from its
\* "Starting builder" event on
ThisStart ==
    LET k == CHOOSE k \in 1..Len(pushed) :
                 /\ pushed[k] = StartingEvent
                 /\ \A j \in (k + 1)..Len(pushed) : pushed[j] # StartingEvent
    IN  SubSeq(pushed, k, Len(pushed))

\* the bridge calls of a start of object_id that tagged its image with tag
BothCalls ==
    << <<"inspect_container", object_id>>,
       <<"commit", object_id, reponame, tag>> >>

\* C15: a start that succeeds pushes (10, "Starting builder") first, with
\* pending set, then makes one inspect call, then one commit call, then
\* pushes eight events of progress 60, then resolves the launch target; no
\* progress-60 event is pushed before the commit has completed, and the
\* records are not consulted before the eighth wait event.
C15_StepsInOrder ==
    /\ pc \in {"await_inspect", "await_commit", "sleep", "await_poll"}
          => build_pending
    /\ pc = "await_inspect"
          => /\ ThisStart = <<StartingEvent>>
             /\ docker_calls = SubSeq(BothCalls, 1, 1)
             /\ ~consulted
    /\ pc = "await_commit"
          => /\ ThisStart = <<StartingEvent>>
             /\ docker_calls = BothCalls
             /\ ~consulted
    /\ pc = "sleep"
          => /\ ThisStart = SubSeq(NineEvents, 1, i + 2)
             /\ docker_calls = BothCalls
             /\ ~consulted
    /\ consulted => ThisStart = NineEvents
    /\ (Finished /\ outcome.kind = "result")
          => /\ consulted
             /\ build_pending
             /\ docker_calls = BothCalls
             /\ ThisStart = NineEvents

\* the second start of a Builder has succeeded
C15_Witness ==
    /\ Finished
    /\ outcome.kind = "result"
    /\ builds = 2
    /\ Len(pushed) > Len(NineEvents)

\* the future of the running or finished start holds error e
FailedBy(e) ==
    /\ Finished
    /\ outcome = [kind |-> "exception", value |-> e]
    /\ build_future = [state |-> "exception", value |-> e]

\* C16: a failure at a step of start halts the steps after it: without an
\* object id no bridge call is made; if inspect returns nothing or fails,
\* commit is never invoked; if commit fails, no progress-60 event is pushed
\* and no record is resolved or created; each time the build result is the
\* error of the step that failed.
C16_FailureHaltsLaterSteps ==
    /\ (object_id = None /\ pc \notin {"idle", "start"})
          => /\ FailedBy(NoObjectSpecified)
             /\ docker_calls = <<>>
    /\ (Len(docker_results) >= 1 /\ docker_results[1] # Container)
          => /\ FailedBy(IF docker_results[1] = None
                            THEN NoObjectReturned ELSE docker_results[1])
             /\ docker_calls = SubSeq(BothCalls, 1, 1)
    /\ (Len(docker_results) >= 2 /\ docker_results[2] # ImageId)
          => /\ FailedBy(docker_results[2])
             /\ docker_calls = BothCalls
    /\ (Finished /\ outcome.kind = "exception" /\ ~consulted)
          => /\ ThisStart = <<StartingEvent>>
             /\ spawner = None
             /\ orm_spawners = {}

\* the second start of a Builder failed at commit, after a first start
\* that pushed wait events
C16_Witness ==
    /\ FailedBy(CommitError)
    /\ docker_results = <<Container, CommitError>>
    /\ builds = 2
    /\ Len(pushed) > Len(NineEvents)

\* C17: the guard _spawn_pending of the record is true while the liveness
\* re-check of an already-ready instance runs, having been set before it,
\* and false once the re-check has returned, raised or been cancelled; it is
\* never left true after start has exited.
C17_GuardHeldOnlyDuringRecheck == spawn_pending <=> pc = "await_poll"

\* start was cancelled during the re-check of an instance that was ready
C17_Witness ==
    /\ Finished
    /\ outcome.kind = "cancelled"
    /\ consulted
    /\ spawner # None
    /\ ~spawn_pending

C19_BufferedEventsDrained ==
    (hmode = "relay" /\ ~hcancelled /\ hpc \in {"await_build", "done"})
      => /\ event_queue = <<>>
         /\ taken = Len(pushed)
         /\ Len(sent) >= Len(pushed) - sub_at
         /\ \A k \in 1..(Len(pushed) - sub_at) : sent[k] = pushed[sub_at + k]
         /\ \A k \in 1..Len(sent) :
              sent[k] \in {ready_event, failed_event} => k = Len(pushed) - sub_at + 1

\* the future has settled, the relay has sent events and more are queued
C19_Witness ==
    /\ hpc = "relay"
    /\ ~hcancelled
    /\ Done(held_future)
    /\ Len(sent) >= 1
    /\ Len(event_queue) >= 2

====
